---- MODULE Spec2Model ----
(***************************************************************************)
(* Model of the Nexus gateway (typescript-client): the Express routes of   *)
(* routes/brains.ts and routes/health.ts, the multer upload middleware,    *)
(* the axios client with its response interceptor, the zod schemas and the *)
(* global error handler.  The Python brain service behind the gateway is   *)
(* not part of the sources at hand; its registry and document store are    *)
(* modelled from the specification (sections 4.1 to 4.3).                  *)
(***************************************************************************)
EXTENDS Integers, Sequences, FiniteSets, TLC

(***************************************************************************)
(* Bounds of the model.                                                    *)
(***************************************************************************)
\* text fragments the engine generates at most for one streamed answer
MaxChunks == 2
\* longest enumerated upload batch (the over-long batch is added separately)
MaxBatch == 2
\* documents the store holds at most in the model, over all brains
MaxDocs == 2
\* messages appended at most to the conversations in the model, over all
MaxClock == 4

\* request slots: requests the gateway handles concurrently
Slots == {"r1", "r2"}
\* brain ids the backend can allocate, and that requests can name
BrainIds == {"b1", "b2"}

(***************************************************************************)
(* Strings whose content the code inspects are sequences of characters.    *)
(***************************************************************************)
UPPER == <<"A","B","C","D","E","F","G","H","I","J","K","L","M",
           "N","O","P","Q","R","S","T","U","V","W","X","Y","Z">>
LOWER == <<"a","b","c","d","e","f","g","h","i","j","k","l","m",
           "n","o","p","q","r","s","t","u","v","w","x","y","z">>

\* String.prototype.toLowerCase, character by character
toLowerCase(s) ==
  [i \in 1..Len(s) |->
     IF \E k \in 1..Len(UPPER) : UPPER[k] = s[i]
     THEN LOWER[CHOOSE k \in 1..Len(UPPER) : UPPER[k] = s[i]]
     ELSE s[i]]

\* path.extname of a file name without directory part: from the last dot to
\* the end; empty when there is no dot or the only dot leads the name
extname(name) ==
  LET dots == {i \in 1..Len(name) : name[i] = "."}
  IN  IF dots = {} THEN <<>>
      ELSE LET last == CHOOSE i \in dots : \A j \in dots : j <= i
           IN  IF last = 1 THEN <<>> ELSE SubSeq(name, last, Len(name))

ALLOWED_MIME_TYPES ==
  { "application/pdf", "text/plain", "text/markdown", "application/msword",
    "application/vnd.openxmlformats-officedocument.wordprocessingml.document",
    "text/csv", "application/json" }

ALLOWED_EXTENSIONS ==
  { <<".","p","d","f">>, <<".","t","x","t">>, <<".","m","d">>,
    <<".","d","o","c">>, <<".","d","o","c","x">>, <<".","c","s","v">>,
    <<".","j","s","o","n">> }

MAX_FILE_SIZE == 50 * 1024 * 1024

MAX_FILES == 20

\* a file filter that checks the extension alone
fileFilterExtensionOnly(file) ==
  IF toLowerCase(extname(file.originalname)) \notin ALLOWED_EXTENSIONS
  THEN "ext" ELSE "ok"

\* a file filter that compares the extension as it is written
fileFilterCaseSensitive(file) ==
  LET ext == extname(file.originalname)
  IN  IF ext \notin ALLOWED_EXTENSIONS THEN "ext"
      ELSE IF file.mimetype \notin ALLOWED_MIME_TYPES THEN "mime"
      ELSE "ok"

\* the fileFilter of the multer instance: "ok", or the kind of Error it
\* hands to the callback
fileFilter(file) ==
  LET ext == toLowerCase(extname(file.originalname))
  IN  IF ext \notin ALLOWED_EXTENSIONS THEN "ext"
      ELSE IF file.mimetype \notin ALLOWED_MIME_TYPES THEN "mime"
      ELSE "ok"


(***************************************************************************)
(* Optional values (T | undefined) are sets with at most one element.      *)
(***************************************************************************)
Undefined == {}

Some(x) == {x}

\* a ?? b
OrElse(a, b) == IF a = Undefined THEN b ELSE CHOOSE x \in a : TRUE

(***************************************************************************)
(* Request payloads.  A string field is represented by its length, an      *)
(* absent field by Undefined.                                              *)
(***************************************************************************)
LLM_PROVIDERS == {"anthropic", "openai", "mistral"}

\* a schema that does not limit the length of the name
BrainCreateSchemaNoMax(body) ==
  IF /\ body.name # Undefined
     /\ \A n \in body.name : n >= 1
     /\ \A d \in body.description : d <= 500
     /\ body.llm_provider \subseteq LLM_PROVIDERS
  THEN Some([name |-> OrElse(body.name, 0),
             description |-> body.description,
             llm_provider |-> OrElse(body.llm_provider, "anthropic"),
             model |-> OrElse(body.model, "claude-3-5-sonnet-20241022")])
  ELSE Undefined

\* BrainCreateSchema.parse: the parsed value with its defaults, or
\* Undefined when zod throws
BrainCreateSchema(body) ==
  IF /\ body.name # Undefined
     /\ \A n \in body.name : n >= 1 /\ n <= 100
     /\ \A d \in body.description : d <= 500
     /\ body.llm_provider \subseteq LLM_PROVIDERS
  THEN Some([name |-> OrElse(body.name, 0),
             description |-> body.description,
             llm_provider |-> OrElse(body.llm_provider, "anthropic"),
             model |-> OrElse(body.model, "claude-3-5-sonnet-20241022")])
  ELSE Undefined

\* a schema that takes any number for max_tokens
QueryRequestSchemaNoInt(body) ==
  IF /\ body.question # Undefined
     /\ \A q \in body.question : q >= 1 /\ q <= 2000
     /\ \A m \in body.max_tokens : m >= 1000 /\ m <= 40960
     /\ \A t \in body.temperature : t >= 0 /\ t <= 10
  THEN Some([question |-> OrElse(body.question, 0),
             max_tokens |-> OrElse(body.max_tokens, 10240),
             temperature |-> OrElse(body.temperature, 7)])
  ELSE Undefined

\* QueryRequestSchema.parse; the numbers max_tokens and temperature are
\* counted in tenths, so that a whole number is a multiple of ten
QueryRequestSchema(body) ==
  IF /\ body.question # Undefined
     /\ \A q \in body.question : q >= 1 /\ q <= 2000
     /\ \A m \in body.max_tokens : m % 10 = 0 /\ m >= 1000 /\ m <= 40960
     /\ \A t \in body.temperature : t >= 0 /\ t <= 10
  THEN Some([question |-> OrElse(body.question, 0),
             max_tokens |-> OrElse(body.max_tokens, 10240),
             temperature |-> OrElse(body.temperature, 7)])
  ELSE Undefined

NoBody == [kind |-> "none"]

CreateBodies ==
  { [name |-> Some(1), description |-> Undefined,
     llm_provider |-> Undefined, model |-> Undefined],
    [name |-> Some(0), description |-> Undefined,
     llm_provider |-> Undefined, model |-> Undefined],
    [name |-> Some(100), description |-> Some(501),
     llm_provider |-> Some("openai"), model |-> Undefined] }

QueryBodies ==
  { [question |-> Some(1), max_tokens |-> Undefined, temperature |-> Undefined],
    [question |-> Some(2001), max_tokens |-> Some(1000), temperature |-> Some(0)] }

\* create-brain payloads at and around the limits of every field
CreatePayloads ==
  [name : {Undefined, Some(0), Some(1), Some(100), Some(101)},
   description : {Undefined, Some(500), Some(501)},
   llm_provider : {Undefined, Some("anthropic"), Some("openai"),
                   Some("mistral"), Some("gemini")},
   model : {Undefined, Some("gpt-4o")}]

\* query payloads at and around the limits of every field
QueryPayloads ==
  [question : {Undefined, Some(0), Some(1), Some(2000), Some(2001)},
   max_tokens : {Undefined, Some(990), Some(1000), Some(1005), Some(40960),
                 Some(40970)},
   temperature : {Undefined, Some(-1), Some(0), Some(10), Some(11)}]

(***************************************************************************)
(* Uploaded files as multer presents them (Express.Multer.File).           *)
(***************************************************************************)
fPdf == [originalname |-> <<"a",".","p","d","f">>,
         mimetype |-> "application/pdf", size |-> 1]
fTxt == [originalname |-> <<"b",".","T","X","T">>,
         mimetype |-> "text/plain", size |-> MAX_FILE_SIZE]
fExe == [originalname |-> <<"x",".","e","x","e">>,
         mimetype |-> "application/pdf", size |-> 1]
fPng == [originalname |-> <<"a",".","p","d","f">>,
         mimetype |-> "image/png", size |-> 1]
fBig == [originalname |-> <<"c",".","m","d">>,
         mimetype |-> "text/markdown", size |-> MAX_FILE_SIZE + 1]

\* the files clients upload, by a short name; a request holds the short names
File == [pdf |-> fPdf, txt |-> fTxt, exe |-> fExe, png |-> fPng, big |-> fBig]

SampleFiles == DOMAIN File

\* the batches a client sends: every batch of up to MaxBatch sample files,
\* and one batch of MAX_FILES + 1 acceptable files
Batches ==
  UNION {[1..n -> SampleFiles] : n \in 0..MaxBatch}
    \cup {[i \in 1..(MAX_FILES + 1) |-> "pdf"]}

\* the files multer accepts one by one
Acceptable(file) == fileFilter(file) = "ok" /\ file.size <= MAX_FILE_SIZE


(***************************************************************************)
(* Errors and responses.                                                   *)
(***************************************************************************)
\* class QuivrClientError(message, statusCode?, details?)
QuivrClientError(message, statusCode, details) ==
  [class |-> "QuivrClientError", message |-> message,
   statusCode |-> statusCode, details |-> details]

\* zod's error; its details are the issues (error.errors)
ZodError == [class |-> "ZodError", message |-> "zod", statusCode |-> Undefined,
             details |-> Some("issues")]

\* a plain Error, and multer's MulterError, which extends Error
PlainError(class, message) ==
  [class |-> class, message |-> message, statusCode |-> Undefined,
   details |-> Undefined]

NoError == [class |-> "none", message |-> "", statusCode |-> Undefined,
            details |-> Undefined]

\* the keys of the JSON body res.json writes: JSON.stringify leaves out a
\* key whose value is undefined
Keys(always, key, value) ==
  IF value = Undefined THEN always ELSE always \cup {key}

\* what the client receives: the status and the fields of the JSON body
Response(status, error, fields) ==
  [status |-> status, error |-> error, fields |-> fields,
   typescript_service |-> "", python_service |-> "", files |-> <<>>]

NoResponse == Response(0, "", {})

\* the body of the answer of GET /health
HealthBody(status, error, fields, python_service) ==
  [Response(status, error, fields) EXCEPT !.typescript_service = "healthy",
                                          !.python_service = python_service]

\* an error handler without the branch for ZodError
errorHandlerNoZod(error) ==
  IF error.class = "QuivrClientError"
  THEN Response(OrElse(error.statusCode, 500), error.message,
                Keys({"error"}, "details", error.details))
  ELSE Response(500, "Internal server error", {"error", "message"})

\* an error handler that answers every error of the client with status 500
errorHandlerNoStatus(error) ==
  IF error.class = "ZodError"
  THEN Response(400, "Validation error", Keys({"error"}, "details", error.details))
  ELSE IF error.class = "QuivrClientError"
  THEN Response(500, error.message, Keys({"error"}, "details", error.details))
  ELSE Response(500, "Internal server error", {"error", "message"})

\* the global error handler, last middleware of the app
errorHandler(error) ==
  IF error.class = "ZodError"
  THEN Response(400, "Validation error", Keys({"error"}, "details", error.details))
  ELSE IF error.class = "QuivrClientError"
  THEN Response(OrElse(error.statusCode, 500), error.message,
                Keys({"error"}, "details", error.details))
  ELSE Response(500, "Internal server error", {"error", "message"})

(***************************************************************************)
(* The outcome of one HTTP call of the axios client to the backend:        *)
(* a response with a status and a body, or no response at all (connection  *)
(* failure, or the 60 second timeout of the client).                       *)
(***************************************************************************)
NoOutcome == [kind |-> "none", status |-> 0, detail |-> Undefined,
              valid |-> TRUE, message |-> "", data |-> ""]

Answer(status, detail, valid) ==
  [kind |-> "response", status |-> status, detail |-> detail,
   valid |-> valid, message |-> "Request failed with status code",
   data |-> ""]

\* HealthResponseSchema.parse of the body of the backend's /health: the
\* status it reports, or Undefined when zod throws
HealthResponseSchema(data) ==
  IF data \in {"healthy", "degraded", "unhealthy"} THEN Some(data)
  ELSE Undefined

\* what the backend's /health may report as its status
HealthReports == {"healthy", "degraded", "unhealthy", "starting"}

\* the 200 of the backend's /health with the status it reports
HealthAnswer(status) ==
  [Answer(200, Undefined, HealthResponseSchema(status) # Undefined)
     EXCEPT !.data = status]

\* the request got no response: error.message of axios
Unanswered == {"connect ECONNREFUSED", "timeout of 60000ms exceeded"}

NoAnswer(message) ==
  [kind |-> "noresponse", status |-> 0, detail |-> Undefined,
   valid |-> TRUE, message |-> message, data |-> ""]

\* axios resolves a response whose status is 2xx and rejects every other
Resolved(outcome) ==
  outcome.kind = "response" /\ outcome.status >= 200 /\ outcome.status < 300

\* an interceptor that drops the status of the backend's response
setupInterceptorsNoStatus(outcome) ==
  QuivrClientError(OrElse(outcome.detail, outcome.message), Undefined,
                   IF outcome.kind = "response" THEN Some("data") ELSE Undefined)

\* the response interceptor's error branch: the QuivrClientError thrown for
\* a rejected call
setupInterceptors(outcome) ==
  QuivrClientError(
    OrElse(outcome.detail, outcome.message),
    IF outcome.kind = "response" THEN Some(outcome.status) ELSE Undefined,
    IF outcome.kind = "response" THEN Some("data") ELSE Undefined)


(***************************************************************************)
(* State.                                                                  *)
(*   req            the request each slot is handling and how far it is     *)
(*                  (staged: the files multer has stored; refused: the      *)
(*                  position of the file at which multer aborted)           *)
(*   uploads        the temp files present in the uploads directory        *)
(*   brains         backend: every brain id is unused, live or deleted     *)
(*   documents      backend: the documents stored for each brain           *)
(*   document_count backend: the count the registry keeps for each brain   *)
(*   streams        backend: the streamed queries and the events they sent  *)
(*   conversations  backend: the conversations and their transcripts         *)
(*   clock          backend: the time of the last message appended           *)
(*   convReply      backend: the answer to the last conversation operation   *)
(*   server         the HTTP server of the gateway and its process           *)
(***************************************************************************)
VARIABLES req, uploads, brains, documents, document_count, streams,
          conversations, clock, convReply, server

vars == <<req, uploads, brains, documents, document_count, streams,
          conversations, clock, convReply, server>>

\* app.listen(env.PORT): the server accepts connections; no signal has
\* arrived, no listener waits for 'close', the process runs
Listening ==
  [listening |-> TRUE, signals |-> <<>>, listeners |-> 0, closed |-> FALSE,
   exitCode |-> {}]

\* the state of the Conversation Manager
talk == <<conversations, clock, convReply>>

backend == <<brains, documents, document_count, streams, talk>>

NoBrain == "none"

\* conversation ids the backend can allocate
ConvIds == {"v1", "v2"}

NoConv == "none"

\* nobody holds the turn of the conversation
NoTurn == [by |-> "none", question |-> "", context |-> <<>>]

NoConversation ==
  [state |-> "unused", brain_id |-> NoBrain, messages |-> <<>>, turn |-> NoTurn]

NoReply == [op |-> "none", conv |-> NoConv, status |-> 0]

\* the connections that carry a streamed query
StreamIds == {"c1", "c2"}

\* no streamed query on the connection
NoStream == [state |-> "IDLE", chunks |-> 0, events |-> <<>>, failed |-> FALSE,
             conv |-> NoConv]

Ops == {"health", "createBrain", "listBrains", "getBrain", "deleteBrain",
        "upload", "query", "listDocuments", "getDocument", "deleteDocument"}

\* the operations that change a brain or its documents
Mutations == {"deleteBrain", "upload", "deleteDocument"}

\* a stored document: the name it was uploaded under and the suffix that
\* makes it unique within its brain (0: none)
Doc(name, n) == [name |-> name, n |-> n]

NoDoc == Doc(<<>>, 0)

DocParams ==
  {Doc(f.originalname, k) : f \in {fPdf, fTxt}, k \in 0..(MaxDocs - 1)}

\* the ids a client may put in the place of :id.  Express matches :id
\* against one segment of the raw path and decodes it afterwards, so %2F
\* arrives in req.params.id as '/'
PathIds == BrainIds \cup {"b1/documents/a.pdf", "b1/documents"}

\* one segment of the path of a URL: a literal text, or the name of a
\* document
Lit(text) == [lit |-> text, doc |-> NoDoc]

DocSeg(d) == [lit |-> "", doc |-> d]

\* the segments a text falls into at its slashes when it is put into a path
\* as it is; a.pdf is the name of the document Doc(fPdf.originalname, 0)
SplitSlash(id) ==
  CASE id = "b1/documents/a.pdf" ->
         <<Lit("b1"), Lit("documents"), DocSeg(Doc(fPdf.originalname, 0))>>
    [] id = "b1/documents" -> <<Lit("b1"), Lit("documents")>>
    [] OTHER -> <<Lit(id)>>

\* encodeURIComponent(documentName): the name is one segment of the path
encodeURIComponent(d) == <<DocSeg(d)>>

\* the method and the path of the call each method of the client makes
Method(op) ==
  CASE op \in {"createBrain", "upload", "query"} -> "POST"
    [] op \in {"deleteBrain", "deleteDocument"} -> "DELETE"
    [] OTHER -> "GET"

Url(op, brainId, documentName) ==
  CASE op = "health" -> <<Lit("health")>>
    [] op \in {"createBrain", "listBrains"} -> <<Lit("brains")>>
    [] op \in {"getBrain", "deleteBrain"} ->
         <<Lit("brains")>> \o SplitSlash(brainId)
    [] op \in {"upload", "listDocuments"} ->
         <<Lit("brains")>> \o SplitSlash(brainId) \o <<Lit("documents")>>
    [] op = "query" ->
         <<Lit("brains")>> \o SplitSlash(brainId) \o <<Lit("query")>>
    [] OTHER ->
         <<Lit("brains")>> \o SplitSlash(brainId) \o <<Lit("documents")>>
           \o encodeURIComponent(documentName)

\* the operation of the backend a call addresses
Target(op, brain, doc) == [op |-> op, brain |-> brain, doc |-> doc]

NoTarget == Target("none", NoBrain, NoDoc)

\* the routes of the backend: the operation a method and a path select
Route(method, url) ==
  LET n == Len(url)
      id == IF n >= 2 THEN url[2].lit ELSE NoBrain
  IN  CASE n = 1 /\ url[1] = Lit("health") /\ method = "GET" ->
             Target("health", NoBrain, NoDoc)
        [] n = 1 /\ url[1] = Lit("brains") /\ method = "GET" ->
             Target("listBrains", NoBrain, NoDoc)
        [] n = 1 /\ url[1] = Lit("brains") /\ method = "POST" ->
             Target("createBrain", NoBrain, NoDoc)
        [] n = 2 /\ url[1] = Lit("brains") /\ method = "GET" ->
             Target("getBrain", id, NoDoc)
        [] n = 2 /\ url[1] = Lit("brains") /\ method = "DELETE" ->
             Target("deleteBrain", id, NoDoc)
        [] n = 3 /\ url[1] = Lit("brains") /\ url[3] = Lit("documents")
             /\ method = "GET" -> Target("listDocuments", id, NoDoc)
        [] n = 3 /\ url[1] = Lit("brains") /\ url[3] = Lit("documents")
             /\ method = "POST" -> Target("upload", id, NoDoc)
        [] n = 3 /\ url[1] = Lit("brains") /\ url[3] = Lit("query")
             /\ method = "POST" -> Target("query", id, NoDoc)
        [] n = 4 /\ url[1] = Lit("brains") /\ url[3] = Lit("documents")
             /\ method = "GET" -> Target("getDocument", id, url[4].doc)
        [] n = 4 /\ url[1] = Lit("brains") /\ url[3] = Lit("documents")
             /\ method = "DELETE" -> Target("deleteDocument", id, url[4].doc)
        [] OTHER -> NoTarget

\* the operation the call of the request in slot r addresses
Addressed(r) == Route(Method(r.op), Url(r.op, r.brain, r.doc))

Idle ==
  [op |-> "none", brain |-> NoBrain, body |-> NoBody, files |-> <<>>,
   doc |-> NoDoc, pc |-> "idle", staged |-> 0, refused |-> 0, calls |-> 0,
   payload |-> NoBody, target |-> NoTarget, sent |-> 0,
   outcome |-> NoOutcome, error |-> NoError, resp |-> NoResponse,
   engine |-> FALSE, forwarded |-> 0]

\* a slot that takes no request
Off == [Idle EXCEPT !.pc = "off"]

\* one request at a time: the requests of a client that waits for each answer
Init ==
  /\ req = [s \in Slots |-> IF s = "r1" THEN Idle ELSE Off]
  /\ uploads = {}
  /\ brains = [b \in BrainIds |-> "unused"]
  /\ documents = [b \in BrainIds |-> {}]
  /\ document_count = [b \in BrainIds |-> 0]
  /\ streams = [c \in StreamIds |-> NoStream]
  /\ conversations = [v \in ConvIds |-> NoConversation]
  /\ clock = 0
  /\ convReply = NoReply
  /\ server = Listening

\* every slot takes requests: clients whose requests overlap, on two brains
\* that exist, the first of them holding one document
InitConcurrent ==
  /\ req = [s \in Slots |-> Idle]
  /\ uploads = {}
  /\ brains = [b \in BrainIds |-> "live"]
  /\ documents = [b \in BrainIds |->
                    IF b = "b1" THEN {Doc(fPdf.originalname, 0)} ELSE {}]
  /\ document_count = [b \in BrainIds |-> IF b = "b1" THEN 1 ELSE 0]
  /\ streams = [c \in StreamIds |-> NoStream]
  /\ conversations = [v \in ConvIds |-> NoConversation]
  /\ clock = 0
  /\ convReply = NoReply
  /\ server = Listening

\* the temp file multer's disk storage wrote for file i of the request in
\* slot s (file.path)
TempFile(s, i) == [slot |-> s, idx |-> i]

TempFilesOf(s) == {f \in uploads : f.slot = s}

(***************************************************************************)
(* A client sends a request; Express routes it.                            *)
(***************************************************************************)
Arrive(s, op, brain, body, files, doc) ==
  /\ req[s].pc = "idle" /\ server.listening
  /\ req' = [req EXCEPT ![s] =
       [Idle EXCEPT !.op = op, !.brain = brain, !.body = body,
                    !.files = files, !.doc = doc,
                    !.pc = IF op = "upload" THEN "multer" ELSE "handler"]]
  /\ UNCHANGED <<uploads, backend>>
  /\ UNCHANGED server

Receive(s) ==
  /\ req[s].pc = "idle"
  /\ \/ \E op \in {"health", "listBrains"} :
          Arrive(s, op, NoBrain, NoBody, <<>>, NoDoc)
     \/ \E body \in CreateBodies :
          Arrive(s, "createBrain", NoBrain, body, <<>>, NoDoc)
     \/ \E op \in {"getBrain", "deleteBrain", "listDocuments"}, b \in BrainIds :
          Arrive(s, op, b, NoBody, <<>>, NoDoc)
     \/ \E b \in BrainIds, body \in QueryBodies :
          Arrive(s, "query", b, body, <<>>, NoDoc)
     \/ \E b \in BrainIds, files \in Batches :
          Arrive(s, "upload", b, NoBody, files, NoDoc)
     \/ \E op \in {"getDocument", "deleteDocument"}, b \in BrainIds,
           d \in DocParams :
          Arrive(s, op, b, NoBody, <<>>, d)

\* the requests of the concurrent runs: the mutations of a brain and of its
\* documents, and queries
ReceiveSome(s) ==
  /\ req[s].pc = "idle"
  /\ \E b \in BrainIds :
       \/ Arrive(s, "deleteBrain", b, NoBody, <<>>, NoDoc)
       \/ Arrive(s, "upload", b, NoBody, <<"pdf">>, NoDoc)
       \/ Arrive(s, "deleteDocument", b, NoBody, <<>>, Doc(fPdf.originalname, 0))
       \/ Arrive(s, "query", b,
                 CHOOSE body \in QueryBodies : QueryRequestSchema(body) # Undefined,
                 <<>>, NoDoc)

(***************************************************************************)
(* upload.array('files', 20): multer takes the files of the multipart body *)
(* one by one.  A file past the limit of MAX_FILES, a file the fileFilter  *)
(* refuses and a file longer than MAX_FILE_SIZE abort the upload: multer   *)
(* removes the files it has already written and passes the error on.       *)
(***************************************************************************)
MulterVerdict(files, i) ==
  IF i > MAX_FILES THEN PlainError("MulterError", "Too many files")
  ELSE IF fileFilter(File[files[i]]) = "ext"
  THEN PlainError("Error", "File type not allowed")
  ELSE IF fileFilter(File[files[i]]) = "mime"
  THEN PlainError("Error", "MIME type not allowed")
  ELSE IF File[files[i]].size > MAX_FILE_SIZE
  THEN PlainError("MulterError", "File too large")
  ELSE NoError

upload(s) ==
  /\ req[s].pc = "multer"
  /\ LET r == req[s]
         i == r.staged + 1
     IN  IF i > Len(r.files)
         THEN /\ req' = [req EXCEPT ![s].pc = "handler"]
              /\ UNCHANGED uploads
         ELSE IF MulterVerdict(r.files, i) = NoError
         THEN /\ uploads' = uploads \cup {TempFile(s, i)}
              /\ req' = [req EXCEPT ![s].staged = i]
         ELSE /\ uploads' = uploads \ TempFilesOf(s)
              /\ req' = [req EXCEPT ![s].pc = "error", ![s].staged = 0,
                                    ![s].refused = i,
                                    ![s].error = MulterVerdict(r.files, i)]
  /\ UNCHANGED backend
  /\ UNCHANGED server


(***************************************************************************)
(* The route handlers, up to the await of their backend call.              *)
(***************************************************************************)
\* one this.client.get/post/delete of the QuivrClient: the call is in flight
Call(s) ==
  req' = [req EXCEPT ![s].pc = "await", ![s].calls = req[s].calls + 1,
                     ![s].forwarded = req[s].staged,
                     ![s].target = Addressed(req[s])]

\* a call that carries a JSON body
CallWith(s, payload) ==
  req' = [req EXCEPT ![s].pc = "await", ![s].calls = req[s].calls + 1,
                     ![s].forwarded = req[s].staged, ![s].payload = payload,
                     ![s].target = Addressed(req[s])]

\* a synchronous throw inside an async handler rejects its promise
Throw(s, error) ==
  req' = [req EXCEPT ![s].pc = "error", ![s].error = error]

\* res.status(status).json(body)
Send(s, response) ==
  req' = [req EXCEPT ![s].pc = "answered", ![s].resp = response,
                     ![s].sent = req[s].sent + 1]

\* POST /brains
postBrain(s) ==
  /\ req[s].pc = "handler" /\ req[s].op = "createBrain"
  /\ IF BrainCreateSchema(req[s].body) = Undefined
     THEN Throw(s, ZodError)
     ELSE CallWith(s, OrElse(BrainCreateSchema(req[s].body), NoBody))
  /\ UNCHANGED <<uploads, backend>>
  /\ UNCHANGED server

\* a query handler that first writes the question to a file of its own
postQueryStaging(s) ==
  /\ req[s].pc = "handler" /\ req[s].op = "query"
  /\ IF QueryRequestSchema(req[s].body) = Undefined
     THEN Throw(s, ZodError) /\ UNCHANGED uploads
     ELSE /\ CallWith(s, OrElse(QueryRequestSchema(req[s].body), NoBody))
          /\ uploads' = uploads \cup {TempFile(s, 1)}
  /\ UNCHANGED backend
  /\ UNCHANGED server

\* POST /brains/:id/query
postQuery(s) ==
  /\ req[s].pc = "handler" /\ req[s].op = "query"
  /\ IF QueryRequestSchema(req[s].body) = Undefined
     THEN Throw(s, ZodError)
     ELSE CallWith(s, OrElse(QueryRequestSchema(req[s].body), NoBody))
  /\ UNCHANGED <<uploads, backend>>
  /\ UNCHANGED server

\* POST /brains/:id/documents, after multer: req.files are the files multer
\* stored
postDocuments(s) ==
  /\ req[s].pc = "handler" /\ req[s].op = "upload"
  /\ IF req[s].staged = 0
     THEN Send(s, Response(400, "Bad Request", {"error", "message"}))
     ELSE Call(s)
  /\ UNCHANGED <<uploads, backend>>
  /\ UNCHANGED server

\* GET /brains, GET and DELETE /brains/:id, GET /brains/:id/documents,
\* GET and DELETE /brains/:id/documents/:name: the handler calls the client
\* at once
passThrough(s) ==
  /\ req[s].pc = "handler"
  /\ req[s].op \in {"listBrains", "getBrain", "deleteBrain", "listDocuments",
                    "getDocument", "deleteDocument"}
  /\ Call(s)
  /\ UNCHANGED <<uploads, backend>>
  /\ UNCHANGED server

\* GET /health
getHealth(s) ==
  /\ req[s].pc = "handler" /\ req[s].op = "health"
  /\ Call(s)
  /\ UNCHANGED <<uploads, backend>>
  /\ UNCHANGED server


(***************************************************************************)
(* The backend service (Brain Registry, Document Store Adapter and Query   *)
(* Execution of the specification).  One step of the backend handles one   *)
(* call that is in flight and answers it.                                  *)
(***************************************************************************)
\* a store that keeps every document under the name it was uploaded with
FreshNoSuffix(docs, name) == Doc(name, 0)

\* the name under which a new document is stored: the first free suffix
Fresh(docs, name) ==
  Doc(name, CHOOSE k \in 0..Cardinality(docs) :
              /\ Doc(name, k) \notin docs
              /\ \A j \in 0..(k - 1) : Doc(name, j) \in docs)

RECURSIVE StoreAll(_, _)
StoreAll(docs, files) ==
  IF files = <<>> THEN docs
  ELSE StoreAll(docs \cup {Fresh(docs, File[Head(files)].originalname)},
                Tail(files))

RECURSIVE Sum(_, _)
Sum(f, S) ==
  IF S = {} THEN 0
  ELSE LET x == CHOOSE y \in S : TRUE IN f[x] + Sum(f, S \ {x})

\* the number of documents in the store
Stored == Sum([b \in BrainIds |-> Cardinality(documents[b])], BrainIds)

\* a registry that counts uploads, not files
recordDocumentChangeByOne(b, delta) ==
  document_count' = [document_count EXCEPT ![b] = document_count[b] + 1]

\* recordDocumentChange(id, delta)
recordDocumentChange(b, delta) ==
  document_count' = [document_count EXCEPT ![b] = document_count[b] + delta]

NotFound == Answer(404, Some("Brain not found"), TRUE)

\* the call in slot s is answered with outcome o
Reply(s, o, engine) ==
  req' = [req EXCEPT ![s].pc = "resume", ![s].outcome = o,
                     ![s].engine = engine]

\* the bodies of these operations are parsed by the client against a schema;
\* the backend's JSON may or may not satisfy it
Parsed == {"health", "createBrain", "listBrains", "getBrain", "query",
           "listDocuments", "getDocument"}

\* ids are allocated in order and never reused
NextId ==
  IF brains["b1"] = "unused" THEN "b1"
  ELSE IF brains["b2"] = "unused" THEN "b2"
  ELSE NoBrain

\* the brain of this id exists
Exists(b) == b \in BrainIds /\ brains[b] = "live"

backendCreate(s) ==
  /\ req[s].pc = "await" /\ req[s].target.op = "createBrain"
  /\ \E b \in BrainIds, valid \in BOOLEAN :
       /\ b = NextId
       /\ brains' = [brains EXCEPT ![b] = "live"]
       /\ Reply(s, Answer(201, Undefined, valid), FALSE)
  /\ UNCHANGED <<uploads, documents, document_count, streams, talk>>
  /\ UNCHANGED server

backendRead(s) ==
  /\ req[s].pc = "await"
  /\ req[s].target.op \in {"health", "listBrains", "getBrain", "listDocuments",
                    "getDocument"}
  /\ LET r == req[s].target
         found ==
           CASE r.op \in {"health", "listBrains"} -> TRUE
             [] r.op \in {"getBrain", "listDocuments"} -> Exists(r.brain)
             [] OTHER -> Exists(r.brain) /\ r.doc \in documents[r.brain]
     IN  IF r.op = "health"
         THEN \E status \in HealthReports : Reply(s, HealthAnswer(status), FALSE)
         ELSE IF found
         THEN \E valid \in BOOLEAN : Reply(s, Answer(200, Undefined, valid), FALSE)
         ELSE Reply(s, NotFound, FALSE)
  /\ UNCHANGED <<uploads, backend>>
  /\ UNCHANGED server

\* a delete that leaves the conversations of the brain in place
cascadeNothing(b) == UNCHANGED conversations

\* delete(id) cascades to the Conversation Manager: the conversations of the
\* brain are deleted
cascade(b) ==
  conversations' =
    [v \in ConvIds |->
       IF conversations[v].state = "live" /\ conversations[v].brain_id = b
       THEN [NoConversation EXCEPT !.state = "deleted", !.brain_id = b]
       ELSE conversations[v]]

backendDeleteBrain(s) ==
  /\ req[s].pc = "await" /\ req[s].target.op = "deleteBrain"
  /\ LET b == req[s].target.brain
     IN  IF Exists(b)
         THEN /\ brains' = [brains EXCEPT ![b] = "deleted"]
              /\ documents' = [documents EXCEPT ![b] = {}]
              /\ document_count' = [document_count EXCEPT ![b] = 0]
              /\ cascade(b)
              /\ Reply(s, Answer(204, Undefined, TRUE), FALSE)
         ELSE /\ Reply(s, NotFound, FALSE)
              /\ UNCHANGED <<brains, documents, document_count, conversations>>
  /\ UNCHANGED <<uploads, streams, clock, convReply>>
  /\ UNCHANGED server

backendUpload(s) ==
  /\ req[s].pc = "await" /\ req[s].target.op = "upload"
  /\ LET b == req[s].target.brain
         files == SubSeq(req[s].files, 1, req[s].forwarded)
     IN  IF Exists(b)
         THEN /\ Stored + Len(files) <= MaxDocs
              /\ documents' = [documents EXCEPT ![b] = StoreAll(documents[b], files)]
              /\ recordDocumentChange(b, Len(files))
              /\ Reply(s, Answer(201, Undefined, TRUE), FALSE)
         ELSE /\ Reply(s, NotFound, FALSE)
              /\ UNCHANGED <<documents, document_count>>
  /\ UNCHANGED <<uploads, brains, streams, talk>>
  /\ UNCHANGED server

backendDeleteDocument(s) ==
  /\ req[s].pc = "await" /\ req[s].target.op = "deleteDocument"
  /\ LET b == req[s].target.brain
         d == req[s].target.doc
     IN  IF Exists(b) /\ d \in documents[b]
         THEN /\ documents' = [documents EXCEPT ![b] = documents[b] \ {d}]
              /\ recordDocumentChange(b, -1)
              /\ Reply(s, Answer(204, Undefined, TRUE), FALSE)
         ELSE /\ Reply(s, Answer(404, Some("Document not found"), TRUE), FALSE)
              /\ UNCHANGED <<documents, document_count>>
  /\ UNCHANGED <<uploads, brains, streams, talk>>
  /\ UNCHANGED server

\* Query Execution: the brain must exist and hold a document before the
\* Retrieval-Generation Engine is invoked; the engine may fail
backendQuery(s) ==
  /\ req[s].pc = "await" /\ req[s].target.op = "query"
  /\ LET b == req[s].target.brain
     IN  IF ~Exists(b) THEN Reply(s, NotFound, FALSE)
         ELSE IF document_count[b] = 0
         THEN Reply(s, Answer(400, Some("Brain has no documents"), TRUE), FALSE)
         ELSE \/ \E valid \in BOOLEAN :
                   Reply(s, Answer(200, Undefined, valid), TRUE)
              \/ Reply(s, Answer(503, Some("Engine unavailable"), TRUE), TRUE)
  /\ UNCHANGED <<uploads, backend>>
  /\ UNCHANGED server

\* no route of the backend matches the method and the path of the call
backendUnrouted(s) ==
  /\ req[s].pc = "await" /\ req[s].target.op = "none"
  /\ Reply(s, Answer(404, Some("Not Found"), TRUE), FALSE)
  /\ UNCHANGED <<uploads, backend>>
  /\ UNCHANGED server

\* the call gets no response: the connection fails, or the client's timeout
\* of 60 seconds passes.  The specification has every failed operation leave
\* the registry and the store as they were, so the backend's state is kept.
noResponse(s) ==
  /\ req[s].pc = "await"
  /\ \E m \in Unanswered : Reply(s, NoAnswer(m), FALSE)
  /\ UNCHANGED <<uploads, backend>>
  /\ UNCHANGED server


(***************************************************************************)
(* The route handlers after the await.                                     *)
(***************************************************************************)
\* a cleanup that the catch block does not run
cleanupFilesOnSuccess(s) ==
  uploads' = IF Resolved(req[s].outcome) THEN uploads \ TempFilesOf(s)
             ELSE uploads

\* cleanupFiles(files): every temp file of the request that still exists
\* is unlinked
cleanupFiles(s) == uploads' = uploads \ TempFilesOf(s)

\* the status a route sends on success
SuccessStatus(op) ==
  CASE op \in {"createBrain", "upload"} -> 201
    [] op \in {"deleteBrain", "deleteDocument"} -> 204
    [] OTHER -> 200

\* a handler that calls the backend a second time when the first call failed
resumeParsedRetry(s) ==
  /\ req[s].pc = "resume" /\ req[s].op \in Parsed \ {"health"}
  /\ LET o == req[s].outcome
     IN  IF ~Resolved(o) /\ req[s].calls < 2 THEN Call(s)
         ELSE IF ~Resolved(o) THEN Throw(s, setupInterceptors(o))
         ELSE IF ~o.valid THEN Throw(s, ZodError)
         ELSE Send(s, Response(SuccessStatus(req[s].op), "", {"data"}))
  /\ UNCHANGED <<uploads, backend>>
  /\ UNCHANGED server

\* routes whose client method parses the response body: createBrain,
\* listBrains, getBrain, queryBrain, listDocuments, getDocument
resumeParsed(s) ==
  /\ req[s].pc = "resume" /\ req[s].op \in Parsed \ {"health"}
  /\ LET o == req[s].outcome
     IN  IF ~Resolved(o) THEN Throw(s, setupInterceptors(o))
         ELSE IF ~o.valid THEN Throw(s, ZodError)
         ELSE Send(s, Response(SuccessStatus(req[s].op), "", {"data"}))
  /\ UNCHANGED <<uploads, backend>>
  /\ UNCHANGED server

\* DELETE /brains/:id and DELETE /brains/:id/documents/:name
resumeDelete(s) ==
  /\ req[s].pc = "resume" /\ req[s].op \in {"deleteBrain", "deleteDocument"}
  /\ LET o == req[s].outcome
     IN  IF ~Resolved(o) THEN Throw(s, setupInterceptors(o))
         ELSE Send(s, Response(SuccessStatus(req[s].op), "", {}))
  /\ UNCHANGED <<uploads, backend>>
  /\ UNCHANGED server

\* statistics that name a file by the name of its temp file
getFileStatsStored(file) ==
  [originalName |-> file.originalname \o <<"-", "1">>,
   size |-> file.size,
   mimeType |-> file.mimetype,
   extension |-> extname(file.originalname)]

\* getFileStats(file), without the time of the upload
getFileStats(file) ==
  [originalName |-> file.originalname,
   size |-> file.size,
   mimeType |-> file.mimetype,
   extension |-> extname(file.originalname)]

\* req.files of the handler: the files multer stored, in the order of the
\* multipart body
ReqFiles(s) == [i \in 1..req[s].staged |-> File[req[s].files[i]]]

\* {...result, files: files.map(getFileStats)}
UploadBody(status, files) ==
  [Response(status, "", {"message", "files", "brain_id"})
     EXCEPT !.files = [i \in 1..Len(files) |-> getFileStats(files[i])]]

\* an upload route whose catch block answers and rethrows
resumeDocumentsAnswering(s) ==
  /\ req[s].pc = "resume" /\ req[s].op = "upload"
  /\ cleanupFiles(s)
  /\ LET o == req[s].outcome
     IN  IF ~Resolved(o)
         THEN req' = [req EXCEPT ![s].pc = "error",
                                 ![s].error = setupInterceptors(o),
                                 ![s].resp = Response(500, "Upload failed",
                                                      {"error", "message"}),
                                 ![s].sent = req[s].sent + 1]
         ELSE Send(s, UploadBody(SuccessStatus(req[s].op), ReqFiles(s)))
  /\ UNCHANGED backend
  /\ UNCHANGED server

\* POST /brains/:id/documents: the try block after the await, and the catch
resumeDocuments(s) ==
  /\ req[s].pc = "resume" /\ req[s].op = "upload"
  /\ cleanupFiles(s)
  /\ LET o == req[s].outcome
     IN  IF ~Resolved(o) THEN Throw(s, setupInterceptors(o))
         ELSE Send(s, UploadBody(SuccessStatus(req[s].op), ReqFiles(s)))
  /\ UNCHANGED backend
  /\ UNCHANGED server

\* a health route without its catch block
resumeHealthNoCatch(s) ==
  /\ req[s].pc = "resume" /\ req[s].op = "health"
  /\ LET o == req[s].outcome
     IN  IF ~Resolved(o) THEN Throw(s, setupInterceptors(o))
         ELSE IF HealthResponseSchema(o.data) = Undefined THEN Throw(s, ZodError)
         ELSE Send(s, HealthBody(200, "",
                  {"typescript_service", "python_service", "timestamp"},
                  OrElse(HealthResponseSchema(o.data), "")))
  /\ UNCHANGED <<uploads, backend>>
  /\ UNCHANGED server

\* GET /health: the try block after the await, and the catch
resumeHealth(s) ==
  /\ req[s].pc = "resume" /\ req[s].op = "health"
  /\ LET o == req[s].outcome
     IN  IF Resolved(o) /\ HealthResponseSchema(o.data) # Undefined
         THEN Send(s, HealthBody(200, "",
                  {"typescript_service", "python_service", "timestamp"},
                  OrElse(HealthResponseSchema(o.data), "")))
         ELSE Send(s, HealthBody(503, IF Resolved(o) THEN ZodError.message
                                      ELSE setupInterceptors(o).message,
                  {"typescript_service", "python_service", "error", "timestamp"},
                  "unhealthy"))
  /\ UNCHANGED <<uploads, backend>>
  /\ UNCHANGED server

\* asyncHandler: a rejected handler promise goes to next(error); multer hands
\* its error to next(error) too.  Express then runs the error handler.
asyncHandler(s) ==
  /\ req[s].pc = "error"
  /\ Send(s, errorHandler(req[s].error))
  /\ UNCHANGED <<uploads, backend>>
  /\ UNCHANGED server

\* the response has been delivered; the slot takes the next request
Finish(s) ==
  /\ req[s].pc = "answered"
  /\ req' = [req EXCEPT ![s] = Idle]
  /\ UNCHANGED <<uploads, backend>>
  /\ UNCHANGED server

\* the steps of a request that has arrived
Step(s) ==
  \/ upload(s)
  \/ postBrain(s)
  \/ postQuery(s)
  \/ postDocuments(s)
  \/ passThrough(s)
  \/ getHealth(s)
  \/ backendCreate(s)
  \/ backendRead(s)
  \/ backendDeleteBrain(s)
  \/ backendUpload(s)
  \/ backendDeleteDocument(s)
  \/ backendQuery(s)
  \/ noResponse(s)
  \/ resumeParsed(s)
  \/ resumeDelete(s)
  \/ resumeDocuments(s)
  \/ resumeHealth(s)
  \/ asyncHandler(s)
  \/ Finish(s)

Next == \E s \in Slots : Receive(s) \/ Step(s)

Spec == Init /\ [][Next]_vars

\* one request of every route: on the first brain, with a batch that is
\* empty, refused by multer, or stored
ReceiveEach(s) ==
  /\ req[s].pc = "idle"
  /\ \/ \E op \in {"health", "listBrains"} :
          Arrive(s, op, NoBrain, NoBody, <<>>, NoDoc)
     \/ \E body \in CreateBodies :
          Arrive(s, "createBrain", NoBrain, body, <<>>, NoDoc)
     \/ \E op \in {"getBrain", "deleteBrain", "listDocuments"} :
          Arrive(s, op, "b1", NoBody, <<>>, NoDoc)
     \/ \E body \in QueryBodies :
          Arrive(s, "query", "b1", body, <<>>, NoDoc)
     \/ \E files \in {<<>>, <<"pdf">>, <<"pdf", "exe">>} :
          Arrive(s, "upload", "b1", NoBody, files, NoDoc)
     \/ \E op \in {"getDocument", "deleteDocument"} :
          Arrive(s, op, "b1", NoBody, <<>>, Doc(fPdf.originalname, 0))

NextAnswering == \E s \in Slots : ReceiveEach(s) \/ Step(s)

\* the event loop runs every continuation that is ready, and the timeout of
\* the client ends every call the backend leaves unanswered
SpecAnswering ==
  Init /\ [][NextAnswering]_vars /\ \A s \in Slots : WF_vars(Step(s))

\* overlapping requests, drawn from the operations on brains and documents
NextConcurrent ==
  \E s \in Slots :
    \/ ReceiveSome(s)
    \/ upload(s)
    \/ postQuery(s)
    \/ postDocuments(s)
    \/ passThrough(s)
    \/ backendDeleteBrain(s)
    \/ backendUpload(s)
    \/ backendDeleteDocument(s)
    \/ backendQuery(s)
    \/ noResponse(s)
    \/ resumeParsed(s)
    \/ resumeDelete(s)
    \/ resumeDocuments(s)
    \/ asyncHandler(s)
    \/ Finish(s)

SpecConcurrent == InitConcurrent /\ [][NextConcurrent]_vars


(***************************************************************************)
(* The Streaming Query Orchestrator of the backend (specification 4.5):    *)
(*   STARTED -> EMITTING_CONTENT (zero or more) -> EMITTING_SOURCES -> DONE *)
(* with ERROR reachable from any point.  Every transition emits one event. *)
(* The answer of the engine is cut into chunks text fragments, which are    *)
(* streamed one by one.                                                    *)
(***************************************************************************)
Event(type, n) == [type |-> type, n |-> n]

\* the error event carries a message
ErrorEvent(message) == [type |-> "error", n |-> 0, message |-> message]

\* a stream that has started and has not ended
Running == {"STARTED", "EMITTING_CONTENT", "EMITTING_SOURCES"}

\* the number of content events sent so far on connection c
Sent(c) ==
  Cardinality({i \in 1..Len(streams[c].events) :
                 streams[c].events[i].type = "content"})

Emit(c, state, event) ==
  streams' = [streams EXCEPT ![c].state = state,
                             ![c].events = Append(streams[c].events, event)]

\* POST /stream/brains/:id/query
startStream(c) ==
  /\ streams[c].state = "IDLE"
  /\ \E n \in 0..MaxChunks :
       streams' = [streams EXCEPT ![c] =
                     [state |-> "STARTED", chunks |-> n, events |-> <<>>,
                      failed |-> FALSE, conv |-> NoConv]]
  /\ UNCHANGED <<req, uploads, brains, documents, document_count, talk>>
  /\ UNCHANGED server

\* the Retrieval-Generation Engine fails while the stream is running
engineFails(c) ==
  /\ streams[c].state \in Running
  /\ ~streams[c].failed
  /\ streams' = [streams EXCEPT ![c].failed = TRUE]
  /\ UNCHANGED <<req, uploads, brains, documents, document_count, talk>>
  /\ UNCHANGED server

\* the next fragment of the answer, in generation order
emitContent(c) ==
  /\ streams[c].state \in {"STARTED", "EMITTING_CONTENT"}
  /\ ~streams[c].failed
  /\ Sent(c) < streams[c].chunks
  /\ Emit(c, "EMITTING_CONTENT", Event("content", Sent(c) + 1))
  /\ UNCHANGED <<req, uploads, brains, documents, document_count, talk>>
  /\ UNCHANGED server

\* an orchestrator that sends the citations as soon as they are known
emitSourcesEarly(c) ==
  /\ streams[c].state \in {"STARTED", "EMITTING_CONTENT"}
  /\ ~streams[c].failed
  /\ Emit(c, "EMITTING_CONTENT", Event("sources", 0))
  /\ UNCHANGED <<req, uploads, brains, documents, document_count, talk>>
  /\ UNCHANGED server

\* the citation list, once, after all content
emitSources(c) ==
  /\ streams[c].state \in {"STARTED", "EMITTING_CONTENT"}
  /\ ~streams[c].failed
  /\ Sent(c) = streams[c].chunks
  /\ Emit(c, "EMITTING_SOURCES", Event("sources", 0))
  /\ UNCHANGED <<req, uploads, brains, documents, document_count, talk>>
  /\ UNCHANGED server

emitDone(c) ==
  /\ streams[c].state = "EMITTING_SOURCES"
  /\ ~streams[c].failed
  /\ Emit(c, "DONE", Event("done", 0))
  /\ UNCHANGED <<req, uploads, brains, documents, document_count, talk>>
  /\ UNCHANGED server

\* an orchestrator that ends a failed stream without telling the client
emitErrorSilent(c) ==
  /\ streams[c].state \in Running
  /\ streams[c].failed
  /\ streams' = [streams EXCEPT ![c].state = "ERROR"]
  /\ UNCHANGED <<req, uploads, brains, documents, document_count, talk>>
  /\ UNCHANGED server

\* the engine has failed: the stream ends with an error event
emitError(c) ==
  /\ streams[c].state \in Running
  /\ streams[c].failed
  /\ Emit(c, "ERROR", ErrorEvent("engine failure"))
  /\ UNCHANGED <<req, uploads, brains, documents, document_count, talk>>
  /\ UNCHANGED server

\* the client disconnects: the orchestrator emits nothing more
cancelStream(c) ==
  /\ streams[c].state \in Running
  /\ streams' = [streams EXCEPT ![c].state = "CANCELLED"]
  /\ UNCHANGED <<req, uploads, brains, documents, document_count, talk>>
  /\ UNCHANGED server

\* the connection of a stream that has ended is closed.  A stream of a
\* conversation that ended without done gives the turn back; one that ended
\* with done is closed when its answer is in the transcript.
closeStream(c) ==
  /\ streams[c].state \in {"DONE", "ERROR", "CANCELLED"}
  /\ streams' = [streams EXCEPT ![c] = NoStream]
  /\ LET v == streams[c].conv
     IN  IF v # NoConv /\ conversations[v].turn.by = c
         THEN /\ streams[c].state # "DONE"
              /\ conversations' = [conversations EXCEPT ![v].turn = NoTurn]
         ELSE UNCHANGED conversations
  /\ UNCHANGED <<req, uploads, brains, documents, document_count, clock, convReply>>
  /\ UNCHANGED server

StreamStep(c) ==
  \/ startStream(c)
  \/ engineFails(c)
  \/ emitContent(c)
  \/ emitSources(c)
  \/ emitDone(c)
  \/ emitError(c)
  \/ closeStream(c)

NextStream == \E c \in StreamIds : StreamStep(c)

\* the orchestrator runs every stream it has started until it has ended
SpecStream ==
  /\ Init
  /\ [][NextStream]_vars
  /\ \A c \in StreamIds :
       WF_vars(emitContent(c) \/ emitSources(c) \/ emitDone(c) \/ emitError(c))

(***************************************************************************)
(* The Conversation Manager of the backend (specification 4.4).  The       *)
(* operations on one conversation are serialized (specification 5): while  *)
(* a query holds the turn of a conversation, no other operation changes it. *)
(***************************************************************************)
Message(role, content, timestamp) ==
  [role |-> role, content |-> content, timestamp |-> timestamp]

\* a transcript whose new message carries the time of the message before
AppendedStale(conv, role, content) ==
  [conv EXCEPT !.messages = Append(@, Message(role, content, clock))]

\* the conversation with one more message, stamped with the time of the
\* append
Appended(conv, role, content) ==
  [conv EXCEPT !.messages = Append(@, Message(role, content, clock + 1))]

\* a context that lists the most recent message first
composeContextNewestFirst(messages) ==
  [i \in 1..Len(messages) |->
     [role |-> messages[Len(messages) + 1 - i].role,
      content |-> messages[Len(messages) + 1 - i].content]]

\* the context handed to the engine: the message history, oldest first
composeContext(messages) ==
  [i \in 1..Len(messages) |->
     [role |-> messages[i].role, content |-> messages[i].content]]

Live(v) == conversations[v].state = "live"

\* no query holds the turn of the conversation
Free(v) == conversations[v].turn.by = "none"

ConvReply(op, v, status) ==
  convReply' = [op |-> op, conv |-> v, status |-> status]

\* conversation ids are allocated in order and never reused
NextConv ==
  IF conversations["v1"].state = "unused" THEN "v1"
  ELSE IF conversations["v2"].state = "unused" THEN "v2"
  ELSE NoConv

\* POST /conversations
createConversation(b) ==
  /\ NextConv # NoConv
  /\ IF brains[b] = "live"
     THEN /\ conversations' = [conversations EXCEPT ![NextConv] =
                [NoConversation EXCEPT !.state = "live", !.brain_id = b]]
          /\ ConvReply("create", NextConv, 201)
     ELSE /\ UNCHANGED conversations
          /\ ConvReply("create", NoConv, 404)
  /\ UNCHANGED <<req, uploads, brains, documents, document_count, streams, clock>>
  /\ UNCHANGED server

\* GET /conversations/:id
getConversation(v) ==
  /\ ConvReply("get", v, IF Live(v) THEN 200 ELSE 404)
  /\ UNCHANGED <<req, uploads, brains, documents, document_count, streams,
                 conversations, clock>>
  /\ UNCHANGED server

\* POST /conversations/:id/messages
addMessage(v, role, content) ==
  /\ IF Live(v)
     THEN /\ Free(v) /\ clock < MaxClock
          /\ conversations' = [conversations EXCEPT ![v] =
                                 Appended(@, role, content)]
          /\ clock' = clock + 1
          /\ ConvReply("addMessage", v, 201)
     ELSE /\ UNCHANGED <<conversations, clock>>
          /\ ConvReply("addMessage", v, 404)
  /\ UNCHANGED <<req, uploads, brains, documents, document_count, streams>>
  /\ UNCHANGED server

\* POST /conversations/:id/query, up to the call of the engine: the context
\* is composed, the user message appended and the engine invoked
queryConversation(v, question) ==
  /\ IF ~Live(v)
     THEN /\ ConvReply("query", v, 404)
          /\ UNCHANGED <<conversations, clock>>
     ELSE IF document_count[conversations[v].brain_id] = 0
     THEN /\ ConvReply("query", v, 400)
          /\ UNCHANGED <<conversations, clock>>
     ELSE /\ Free(v) /\ clock < MaxClock
          /\ conversations' = [conversations EXCEPT ![v] =
               [Appended(@, "user", question) EXCEPT !.turn =
                  [by |-> "query", question |-> question,
                   context |-> composeContext(conversations[v].messages)]]]
          /\ clock' = clock + 1
          /\ UNCHANGED convReply
  /\ UNCHANGED <<req, uploads, brains, documents, document_count, streams>>
  /\ UNCHANGED server

\* the engine answers: the assistant message is appended
answerConversation(v) ==
  /\ conversations[v].turn.by = "query"
  /\ clock < MaxClock
  /\ conversations' = [conversations EXCEPT ![v] =
       [Appended(@, "assistant", "A2") EXCEPT !.turn = NoTurn]]
  /\ clock' = clock + 1
  /\ ConvReply("query", v, 200)
  /\ UNCHANGED <<req, uploads, brains, documents, document_count, streams>>
  /\ UNCHANGED server

\* the engine fails: the query fails and no assistant message is appended
failConversation(v) ==
  /\ conversations[v].turn.by = "query"
  /\ conversations' = [conversations EXCEPT ![v].turn = NoTurn]
  /\ ConvReply("query", v, 503)
  /\ UNCHANGED <<req, uploads, brains, documents, document_count, streams, clock>>
  /\ UNCHANGED server

\* DELETE /conversations/:id/messages
clearMessages(v) ==
  /\ IF Live(v)
     THEN /\ Free(v)
          /\ conversations' = [conversations EXCEPT ![v].messages = <<>>]
          /\ ConvReply("clearMessages", v, 200)
     ELSE /\ UNCHANGED conversations
          /\ ConvReply("clearMessages", v, 404)
  /\ UNCHANGED <<req, uploads, brains, documents, document_count, streams, clock>>
  /\ UNCHANGED server

\* DELETE /conversations/:id
deleteConversation(v) ==
  /\ IF Live(v)
     THEN /\ Free(v)
          /\ conversations' = [conversations EXCEPT ![v] =
               [NoConversation EXCEPT !.state = "deleted",
                                      !.brain_id = conversations[v].brain_id]]
          /\ ConvReply("delete", v, 204)
     ELSE /\ UNCHANGED conversations
          /\ ConvReply("delete", v, 404)
  /\ UNCHANGED <<req, uploads, brains, documents, document_count, streams, clock>>
  /\ UNCHANGED server

\* the messages clients add by hand
HandMessages == {<<"user", "Q1">>, <<"assistant", "A1">>}

\* the transcript [user: Q1, assistant: A1], added by hand at times 1 and 2
FirstTurn == <<Message("user", "Q1", 1), Message("assistant", "A1", 2)>>

ConversationStep(v) ==
  \/ getConversation(v)
  \/ \E m \in HandMessages : addMessage(v, m[1], m[2])
  \/ queryConversation(v, "Q2")
  \/ answerConversation(v)
  \/ failConversation(v)
  \/ clearMessages(v)
  \/ deleteConversation(v)

\* the requests to the gateway in the runs with conversations: a brain is
\* deleted, and its document and the brain itself are asked for
ReceiveOnBrain(s) ==
  /\ req[s].pc = "idle"
  /\ \E b \in BrainIds :
       \/ Arrive(s, "deleteBrain", b, NoBody, <<>>, NoDoc)
       \/ Arrive(s, "getDocument", b, NoBody, <<>>, Doc(fPdf.originalname, 0))

\* two brains exist, the first holds a document and has a conversation of
\* one turn; one client of the gateway
InitConversation ==
  /\ req = [s \in Slots |-> IF s = "r1" THEN Idle ELSE Off]
  /\ uploads = {}
  /\ brains = [b \in BrainIds |-> "live"]
  /\ documents = [b \in BrainIds |->
                    IF b = "b1" THEN {Doc(fPdf.originalname, 0)} ELSE {}]
  /\ document_count = [b \in BrainIds |-> IF b = "b1" THEN 1 ELSE 0]
  /\ streams = [c \in StreamIds |-> NoStream]
  /\ conversations = [v \in ConvIds |->
       IF v = "v1"
       THEN [NoConversation EXCEPT !.state = "live", !.brain_id = "b1",
                                   !.messages = FirstTurn]
       ELSE NoConversation]
  /\ clock = Len(FirstTurn)
  /\ convReply = NoReply
  /\ server = Listening

NextConversation ==
  \/ \E s \in Slots :
       \/ ReceiveOnBrain(s)
       \/ passThrough(s)
       \/ backendRead(s)
       \/ backendDeleteBrain(s)
       \/ noResponse(s)
       \/ resumeParsed(s)
       \/ resumeDelete(s)
       \/ asyncHandler(s)
       \/ Finish(s)
  \/ \E b \in BrainIds : createConversation(b)
  \/ \E v \in ConvIds : ConversationStep(v)

SpecConversation == InitConversation /\ [][NextConversation]_vars

(***************************************************************************)
(* Conversation-scoped streaming (specification 4.5 and 5): the stream     *)
(* holds the turn of its conversation from the user message to the answer. *)
(***************************************************************************)
\* POST /stream/conversations/:id/query
startConvStream(c, v) ==
  /\ streams[c].state = "IDLE"
  /\ Live(v) /\ Free(v)
  /\ document_count[conversations[v].brain_id] > 0
  /\ clock + 2 <= MaxClock
  /\ \E n \in 0..MaxChunks :
       streams' = [streams EXCEPT ![c] =
                     [state |-> "STARTED", chunks |-> n, events |-> <<>>,
                      failed |-> FALSE, conv |-> v]]
  /\ conversations' = [conversations EXCEPT ![v] =
       [Appended(@, "user", "Q2") EXCEPT !.turn =
          [by |-> c, question |-> "Q2",
           context |-> composeContext(conversations[v].messages)]]]
  /\ clock' = clock + 1
  /\ UNCHANGED <<req, uploads, brains, documents, document_count, convReply>>
  /\ UNCHANGED server

\* an orchestrator that saves what it has streamed so far
recordAnswerEarly(c) ==
  /\ streams[c].state \in Running \cup {"DONE", "ERROR", "CANCELLED"}
  /\ streams[c].conv # NoConv
  /\ conversations[streams[c].conv].turn.by = c
  /\ clock < MaxClock
  /\ conversations' = [conversations EXCEPT ![streams[c].conv] =
       [Appended(@, "assistant", "A2") EXCEPT !.turn = NoTurn]]
  /\ clock' = clock + 1
  /\ UNCHANGED <<req, uploads, brains, documents, document_count, streams,
                 convReply>>
  /\ UNCHANGED server

\* the stream has reached done: the completed answer is appended to the
\* transcript of its conversation
recordAnswer(c) ==
  /\ streams[c].state = "DONE"
  /\ streams[c].conv # NoConv
  /\ conversations[streams[c].conv].turn.by = c
  /\ clock < MaxClock
  /\ conversations' = [conversations EXCEPT ![streams[c].conv] =
       [Appended(@, "assistant", "A2") EXCEPT !.turn = NoTurn]]
  /\ clock' = clock + 1
  /\ UNCHANGED <<req, uploads, brains, documents, document_count, streams,
                 convReply>>
  /\ UNCHANGED server

\* two conversations of a brain that holds a document
InitConvStream ==
  /\ req = [s \in Slots |-> Off]
  /\ uploads = {}
  /\ brains = [b \in BrainIds |-> "live"]
  /\ documents = [b \in BrainIds |->
                    IF b = "b1" THEN {Doc(fPdf.originalname, 0)} ELSE {}]
  /\ document_count = [b \in BrainIds |-> IF b = "b1" THEN 1 ELSE 0]
  /\ streams = [c \in StreamIds |-> NoStream]
  /\ conversations = [v \in ConvIds |->
       [NoConversation EXCEPT !.state = "live", !.brain_id = "b1"]]
  /\ clock = 0
  /\ convReply = NoReply
  /\ server = Listening

NextConvStream ==
  \/ \E c \in StreamIds :
       \/ \E v \in ConvIds : startConvStream(c, v)
       \/ engineFails(c)
       \/ emitContent(c)
       \/ emitSources(c)
       \/ emitDone(c)
       \/ emitError(c)
       \/ cancelStream(c)
       \/ recordAnswer(c)
       \/ closeStream(c)
  \/ \E v \in ConvIds : addMessage(v, "user", "Q1")

SpecConvStream == InitConvStream /\ [][NextConvStream]_vars

(***************************************************************************)
(* The payloads of create-brain and query, drawn from the limits of their  *)
(* fields.                                                                 *)
(***************************************************************************)
ReceivePayload(s) ==
  /\ req[s].pc = "idle"
  /\ \/ \E body \in CreatePayloads :
          Arrive(s, "createBrain", NoBrain, body, <<>>, NoDoc)
     \/ \E body \in QueryPayloads :
          Arrive(s, "query", "b1", body, <<>>, NoDoc)

\* one brain exists and holds a document; one client of the gateway
InitPayload ==
  /\ req = [s \in Slots |-> IF s = "r1" THEN Idle ELSE Off]
  /\ uploads = {}
  /\ brains = [b \in BrainIds |-> IF b = "b1" THEN "live" ELSE "unused"]
  /\ documents = [b \in BrainIds |->
                    IF b = "b1" THEN {Doc(fPdf.originalname, 0)} ELSE {}]
  /\ document_count = [b \in BrainIds |-> IF b = "b1" THEN 1 ELSE 0]
  /\ streams = [c \in StreamIds |-> NoStream]
  /\ conversations = [v \in ConvIds |-> NoConversation]
  /\ clock = 0
  /\ convReply = NoReply
  /\ server = Listening

NextPayload ==
  \E s \in Slots :
    \/ ReceivePayload(s)
    \/ postBrain(s)
    \/ postQuery(s)
    \/ backendCreate(s)
    \/ backendQuery(s)
    \/ noResponse(s)
    \/ resumeParsed(s)
    \/ asyncHandler(s)
    \/ Finish(s)

SpecPayload == InitPayload /\ [][NextPayload]_vars

(***************************************************************************)
(* The backend answers a call with an error status of its own choosing.    *)
(***************************************************************************)
BackendStatuses == {400, 401, 404, 409, 422, 429, 500, 502, 503}

\* the call in slot s is rejected by axios with error.response.status
backendRefuses(s) ==
  /\ req[s].pc = "await"
  /\ \E status \in BackendStatuses :
       Reply(s, Answer(status, Some("detail"), TRUE), FALSE)
  /\ UNCHANGED <<uploads, backend>>
  /\ UNCHANGED server

NextRelay ==
  \/ Next
  \/ \E s \in Slots : backendRefuses(s)

SpecRelay == Init /\ [][NextRelay]_vars

(***************************************************************************)
(* Requests whose :id holds encoded slashes.                               *)
(***************************************************************************)
ReceiveEncoded(s) ==
  /\ req[s].pc = "idle"
  /\ \E op \in {"getBrain", "deleteBrain", "listDocuments"}, id \in PathIds :
       Arrive(s, op, id, NoBody, <<>>, NoDoc)

NextPath ==
  \E s \in Slots :
    \/ ReceiveEncoded(s)
    \/ passThrough(s)
    \/ backendRead(s)
    \/ backendDeleteBrain(s)
    \/ backendDeleteDocument(s)
    \/ backendUnrouted(s)
    \/ noResponse(s)
    \/ resumeParsed(s)
    \/ resumeDelete(s)
    \/ asyncHandler(s)
    \/ Finish(s)

SpecPath == InitPayload /\ [][NextPath]_vars

(***************************************************************************)
(* Shutdown.  A request occupies a connection from its arrival to the      *)
(* delivery of its response.  server.close(callback) stops the server from *)
(* accepting connections at once and adds the callback as a listener of    *)
(* 'close', the event the server emits when it no longer listens and its   *)
(* last connection has ended.                                              *)
(***************************************************************************)
MaxSignals == 2

Signals == {"SIGTERM", "SIGINT"}

\* the connections that are open
Connections == {s \in Slots : req[s].pc \notin {"idle", "off"}}

\* a shutdown that does not wait for the server to close
shutdownNow(signal) ==
  server' = [server EXCEPT !.listening = FALSE,
                           !.signals = Append(server.signals, signal),
                           !.exitCode = {0}]

\* shutdown(signal): server.close(() => process.exit(0))
shutdown(signal) ==
  server' = [server EXCEPT !.listening = FALSE,
                           !.signals = Append(server.signals, signal),
                           !.listeners = server.listeners + 1]

\* process.on('SIGTERM', ...) and process.on('SIGINT', ...)
onSignal ==
  /\ server.exitCode = {} /\ Len(server.signals) < MaxSignals
  /\ \E signal \in Signals : shutdown(signal)
  /\ UNCHANGED <<req, uploads, backend>>

\* the server emits 'close'; the first listener ends the process with
\* process.exit(0)
emitClose ==
  /\ ~server.listening /\ Connections = {} /\ ~server.closed
  /\ server.exitCode = {}
  /\ server' = [server EXCEPT !.closed = TRUE,
                  !.exitCode = IF server.listeners > 0 THEN {0} ELSE {}]
  /\ UNCHANGED <<req, uploads, backend>>

NextShutdown ==
  \/ \E s \in Slots : ReceiveEach(s) \/ Step(s)
  \/ onSignal
  \/ emitClose

SpecShutdown == Init /\ [][NextShutdown]_vars

(***************************************************************************)
(* Properties.                                                             *)
(***************************************************************************)
\* the allow-list of the specification: extension (whatever its case) and
\* declared content type both belong to it
AllowListed(file) ==
  /\ toLowerCase(extname(file.originalname)) \in ALLOWED_EXTENSIONS
  /\ file.mimetype \in ALLOWED_MIME_TYPES

HasDisallowed(files) ==
  \E i \in 1..Len(files) : ~AllowListed(File[files[i]])

\* C1: an upload whose batch holds a file that fails the allow-list check, at
\* whatever position, is rejected as a whole: nothing is forwarded to the
\* backend, no temp file of the batch is left once multer has refused it, and
\* the answer is an error.
C1_BatchRejectedWhole ==
  \A s \in Slots :
    (req[s].op = "upload" /\ HasDisallowed(req[s].files)) =>
      /\ req[s].calls = 0
      /\ req[s].forwarded = 0
      /\ req[s].pc \in {"multer", "error", "answered"}
      /\ req[s].pc # "multer" => TempFilesOf(s) = {}
      /\ req[s].pc = "answered" => req[s].resp.status >= 400

\* C1 witness: a batch whose first file was stored and whose second file is
\* refused has been answered
C1_Witness ==
  \E s \in Slots :
    /\ req[s].op = "upload" /\ req[s].pc = "answered"
    /\ Len(req[s].files) = 2
    /\ Acceptable(File[req[s].files[1]])
    /\ ~AllowListed(File[req[s].files[2]])

\* the count kept for every brain is the number of its documents, and an
\* upload answered as failed was not accepted by the backend
CountMatches ==
  /\ \A b \in BrainIds : document_count[b] = Cardinality(documents[b])
  /\ \A s \in Slots :
       (req[s].op = "upload" /\ req[s].pc = "answered"
          /\ req[s].resp.status >= 400) => ~Resolved(req[s].outcome)

\* a step of an upload request other than the backend accepting it
FailedUploadStep(s) ==
  /\ req[s].op = "upload"
  /\ req'[s] # req[s]
  /\ ~Resolved(req'[s].outcome)

EmptyBrainQuery(s) ==
  /\ req[s].op = "query"
  /\ brains[req[s].brain] = "live"
  /\ documents[req[s].brain] = {}

\* C5: a query of a brain with zero documents never reaches the engine and
\* always fails; whenever the backend answers it, the client receives
\* status 400 with the error "Brain has no documents".
C5_EmptyBrainQueryFails ==
  \A s \in Slots :
    EmptyBrainQuery(s) =>
      /\ ~req[s].engine
      /\ req[s].pc = "answered" => req[s].resp.status >= 400
      /\ (req[s].pc = "answered" /\ req[s].outcome.kind = "response") =>
           /\ req[s].resp.status = 400
           /\ req[s].resp.error = "Brain has no documents"

C5_Witness ==
  \E s \in Slots :
    /\ EmptyBrainQuery(s) /\ req[s].pc = "answered"
    /\ req[s].outcome.kind = "response"
    /\ req[s].resp.error = "Brain has no documents"

\* a request that validation refuses: a create-brain or query body the
\* schema rejects, an upload without files
RefusedByValidation(s) ==
  \/ req[s].op = "createBrain" /\ BrainCreateSchema(req[s].body) = Undefined
  \/ req[s].op = "query" /\ QueryRequestSchema(req[s].body) = Undefined
  \/ req[s].op = "upload" /\ req[s].files = <<>>

\* C6: a request that validation refuses is answered with status 400 and
\* never causes a backend call: it is never in flight, and it leaves no file.
C6_ValidationBeforeBackend ==
  \A s \in Slots :
    RefusedByValidation(s) =>
      /\ req[s].calls = 0
      /\ req[s].pc \notin {"await", "resume"}
      /\ TempFilesOf(s) = {}
      /\ req[s].pc = "answered" => req[s].resp.status = 400

C6_Witness ==
  \E s \in Slots :
    /\ req[s].op = "createBrain" /\ RefusedByValidation(s)
    /\ req[s].pc = "answered" /\ req[s].resp.status = 400

\* C7: an upload refused at the boundary (disallowed extension or content
\* type, too many files, a file too large) is answered with status 400.
C7_BoundaryRejectionIs400 ==
  \A s \in Slots :
    (req[s].op = "upload" /\ req[s].pc = "answered"
       /\ req[s].error.class \in {"Error", "MulterError"}) =>
      req[s].resp.status = 400

\* C8: a backend call that got no response is answered with status 503.
C8_NoResponseIs503 ==
  \A s \in Slots :
    (req[s].pc = "answered" /\ req[s].outcome.kind = "noresponse") =>
      req[s].resp.status = 503

\* C9: a gateway request causes at most one backend call, also when the call
\* fails or times out.
C9_AtMostOneBackendCall == \A s \in Slots : req[s].calls <= 1

\* C9 witness: a query whose one backend call got no response was answered
C9_Witness ==
  \E s \in Slots :
    /\ req[s].op = "query" /\ req[s].pc = "answered"
    /\ req[s].outcome.kind = "noresponse" /\ req[s].calls = 1

\* C10: at most one mutating call for a brain id is in flight at a time.
C10_MutationsSerialized ==
  \A s, t \in Slots :
    (s # t /\ req[s].pc = "await" /\ req[t].pc = "await"
       /\ req[s].op \in Mutations /\ req[t].op \in Mutations) =>
      req[s].brain # req[t].brain


\* the events of connection c of the given types, by position
Positions(c, types) ==
  {i \in 1..Len(streams[c].events) : streams[c].events[i].type \in types}

StreamOrdered(c) ==
  LET ev == streams[c].events
      content == Positions(c, {"content"})
      sources == Positions(c, {"sources"})
      terminal == Positions(c, {"done", "error"})
  IN  \* content events carry the fragments 1, 2, ... in this order
      /\ \A i \in content :
           ev[i].n = Cardinality({j \in content : j <= i})
      \* sources is sent at most once, after every content event, and only
      \* when all fragments of the answer have been sent
      /\ Cardinality(sources) <= 1
      /\ \A i \in sources :
           /\ \A j \in content : j < i
           /\ Cardinality(content) = streams[c].chunks
      \* at most one terminal event, and it is the last event
      /\ Cardinality(terminal) <= 1
      /\ \A i \in terminal : i = Len(ev)
      \* a stream has ended exactly when its terminal event is sent
      /\ streams[c].state = "DONE" <=>
           (ev # <<>> /\ ev[Len(ev)].type = "done")
      /\ streams[c].state = "ERROR" <=>
           (ev # <<>> /\ ev[Len(ev)].type = "error")
      /\ \A i \in terminal : ev[i].type = "done" => sources # {}

QueryStep(s) ==
  /\ req[s].op = "query" \/ req'[s].op = "query"
  /\ req'[s] # req[s]

\* C11: no step of a query request changes a brain, a document, a document
\* count or a file of the uploads directory, whatever other requests are in
\* progress; the request holds no file and makes its one backend call only.
C11_QueryLeavesStateUnchanged ==
  [][\A s \in Slots :
       QueryStep(s) =>
         /\ UNCHANGED <<uploads, brains, documents, document_count>>
         /\ req'[s].staged = 0 /\ req'[s].forwarded = 0
         /\ req'[s].calls <= 1]_vars

\* C11 witness: two queries of the same brain overlap: one has been answered
\* by the engine while the call of the other is in flight
C11_Witness ==
  \E s, t \in Slots :
    /\ s # t /\ req[s].op = "query" /\ req[t].op = "query"
    /\ req[s].brain = req[t].brain
    /\ req[s].pc = "answered" /\ req[s].engine /\ req[s].resp.status = 200
    /\ req[t].pc = "await"

\* the brain, or the document, that the request in slot s names is absent
Missing(s) ==
  LET r == req[s]
  IN  \/ /\ r.op \in {"getBrain", "deleteBrain", "listDocuments",
                       "getDocument", "deleteDocument", "query"}
         /\ brains[r.brain] # "live"
      \/ /\ r.op \in {"getDocument", "deleteDocument"}
         /\ r.doc \notin documents[r.brain]

\* the backend answers the call of slot s in this step
Answered(s) ==
  /\ req[s].pc = "await" /\ req'[s].pc = "resume"
  /\ req'[s].outcome.kind = "response"

\* C17: get-brain, delete-brain, list-documents, get-document,
\* delete-document and query of a brain or document that does not exist are
\* answered 404 by the backend, and the client of the gateway receives every
\* such answer as status 404 with the backend's message.
C17_MissingIs404 ==
  /\ [][\A s \in Slots :
          (Answered(s) /\ Missing(s)) => req'[s].outcome.status = 404]_vars
  /\ [](\A s \in Slots :
          (req[s].pc = "answered" /\ req[s].outcome.kind = "response"
             /\ req[s].outcome.status = 404) =>
            /\ req[s].resp.status = 404
            /\ req[s].resp.error \in {"Brain not found", "Document not found"})

\* C17 witness: get-document of a brain that exists, for a document it does
\* not hold, has been answered 404
C17_Witness ==
  \E s \in Slots :
    /\ req[s].op = "getDocument" /\ req[s].pc = "answered"
    /\ brains[req[s].brain] = "live"
    /\ req[s].doc \notin documents[req[s].brain]
    /\ req[s].resp.status = 404

\* C18: every error response has the shape {error, detail?, request_id?}: it
\* carries the field error and no field other than detail and request_id.
C18_ErrorShapeUniform ==
  \A s \in Slots :
    (req[s].pc = "answered" /\ req[s].resp.status >= 400) =>
      /\ "error" \in req[s].resp.fields
      /\ req[s].resp.fields \subseteq {"error", "detail", "request_id"}

\* the document formats of the allow-list
Formats ==
  { <<"p","d","f">>, <<"t","x","t">>, <<"m","d">>, <<"d","o","c">>,
    <<"d","o","c","x">>, <<"c","s","v">>, <<"j","s","o","n">> }

\* the content types of these formats
FormatContentTypes ==
  { "application/pdf", "text/plain", "text/markdown", "application/msword",
    "application/vnd.openxmlformats-officedocument.wordprocessingml.document",
    "text/csv", "application/json" }

EqualIgnoringCase(a, b) ==
  /\ Len(a) = Len(b)
  /\ \A i \in 1..Len(a) :
       \/ a[i] = b[i]
       \/ \E k \in 1..Len(UPPER) : {a[i], b[i]} = {UPPER[k], LOWER[k]}

\* the name ends with a dot, not its first character, followed by format f
HasExtension(name, f) ==
  LET k == Len(name) - Len(f)
  IN  /\ k > 1
      /\ name[k] = "."
      /\ EqualIgnoringCase(SubSeq(name, k + 1, Len(name)), f)

InAllowList(file) ==
  /\ \E f \in Formats : HasExtension(file.originalname, f)
  /\ file.mimetype \in FormatContentTypes

\* C19: multer stores a file of an upload only if its extension, whatever
\* its case, and its declared content type are both in the allow-list; the
\* file filter refuses a file exactly when one of the two is not, so that a
\* refusal of an allow-listed file comes from the limits alone.
C19_AcceptedIffAllowListed ==
  \A s \in Slots :
    req[s].op = "upload" =>
      /\ \A i \in 1..req[s].staged : InAllowList(File[req[s].files[i]])
      /\ (req[s].refused # 0 /\ req[s].refused <= MAX_FILES) =>
           (req[s].error.class = "Error"
              <=> ~InAllowList(File[req[s].files[req[s].refused]]))

\* C19 witness: b.TXT has been stored, and a.pdf declared as image/png, which
\* satisfies the extension condition only, has been refused
C19_Witness ==
  \E s \in Slots :
    /\ req[s].op = "upload" /\ req[s].pc = "error"
    /\ req[s].files = <<"txt", "png">>
    /\ req[s].refused = 2
    /\ req[s].error.class = "Error"

\* the backend accepts the upload of slot s in this step
UploadAccepted(s) ==
  /\ req[s].op = "upload" /\ req[s].pc = "await"
  /\ req'[s].pc = "resume" /\ Resolved(req'[s].outcome)

\* C20: an accepted upload keeps every document the brain held and adds one
\* document for every file of the batch, each under the name of its file,
\* made distinct by a suffix where the name is taken: none is overwritten.
C20_NoSilentOverwrite ==
  [][\A s \in Slots :
       UploadAccepted(s) =>
         LET b == req[s].brain
             added == documents'[b] \ documents[b]
         IN  /\ documents[b] \subseteq documents'[b]
             /\ Cardinality(added) = req[s].forwarded
             /\ \A i \in 1..req[s].forwarded :
                  Cardinality({d \in added :
                                 d.name = File[req[s].files[i]].originalname})
                    = Cardinality({j \in 1..req[s].forwarded :
                                     req[s].files[j] = req[s].files[i]})]_vars

\* C20 witness: a batch of two files named a.pdf has been accepted, and the
\* brain holds both
C20_Witness ==
  \E s \in Slots :
    /\ req[s].op = "upload" /\ req[s].pc = "answered"
    /\ req[s].files = <<"pdf", "pdf">> /\ req[s].resp.status = 201
    /\ documents[req[s].brain]
         = {Doc(fPdf.originalname, 0), Doc(fPdf.originalname, 1)}

\* C14: a stream whose engine has failed sends nothing but one well-formed
\* error event, which ends it: the failed stream always reaches ERROR, the
\* error event is its last event and carries a message, and the step that
\* ends one stream with an error leaves every other stream as it was.
C14_EngineFailureEndsStream ==
  /\ \A c \in StreamIds : streams[c].failed ~> (streams[c].state = "ERROR")
  /\ [](\A c \in StreamIds :
          streams[c].state = "ERROR" =>
            LET ev == streams[c].events
            IN  /\ ev # <<>>
                /\ ev[Len(ev)].type = "error"
                /\ ev[Len(ev)].message # ""
                /\ \A i \in 1..(Len(ev) - 1) : ev[i].type # "error")
  /\ [][\A c \in StreamIds :
          /\ (streams[c].failed \/ streams[c].state = "ERROR") =>
               \/ streams'[c].events = streams[c].events
               \/ /\ streams[c].state # "ERROR" /\ streams'[c].state = "ERROR"
                  /\ Len(streams'[c].events) = Len(streams[c].events) + 1
               \/ streams[c].state = "ERROR" /\ streams'[c] = NoStream
          /\ (streams[c].state # "ERROR" /\ streams'[c].state = "ERROR") =>
               \A d \in StreamIds \ {c} : streams'[d] = streams[d]]_vars

\* C14 witness: the engine failed after the first fragment of one stream,
\* which has ended with the error event, while another stream is running
C14_Witness ==
  \E c, d \in StreamIds :
    /\ c # d
    /\ streams[c].state = "ERROR" /\ Len(streams[c].events) = 2
    /\ streams[c].events[1].type = "content"
    /\ streams[d].state = "EMITTING_CONTENT" /\ ~streams[d].failed

\* no document and no conversation of a brain that is not live remains
NothingDangling ==
  \A b \in BrainIds :
    brains[b] # "live" =>
      /\ documents[b] = {} /\ document_count[b] = 0
      /\ \A v \in ConvIds : Live(v) => conversations[v].brain_id # b

\* the conversation operation answered in this step
ConvAnswered(v) == convReply' # convReply /\ convReply'.conv = v

\* C12: once a brain is deleted, none of its documents and conversations
\* remains; every conversation operation on a former conversation of it fails
\* with 404 and changes nothing, creating a conversation for it fails with
\* 404, and every gateway operation on the brain or its former documents that
\* the backend answers is answered 404.
C12_DeletedBrainIsGone ==
  /\ []NothingDangling
  /\ [][/\ \A v \in ConvIds :
            (ConvAnswered(v) /\ conversations[v].state = "deleted") =>
              convReply'.status = 404 /\ UNCHANGED conversations
        /\ \A b \in BrainIds :
            (brains[b] = "deleted" /\ convReply' # convReply
               /\ convReply'.op = "create") =>
              \A v \in ConvIds : conversations'[v].brain_id = b =>
                                   conversations'[v] = conversations[v]
        /\ \A s \in Slots :
            (Answered(s) /\ brains[req[s].brain] = "deleted") =>
              req'[s].outcome.status = 404]_vars
  /\ [](\A s \in Slots :
          (req[s].pc = "answered" /\ brains[req[s].brain] = "deleted"
             /\ req[s].op # "deleteBrain" /\ req[s].outcome.kind = "response") =>
            req[s].resp.status = 404)

\* C12 witness: the brain of a conversation has been deleted through the
\* gateway, and a message for the former conversation was refused with 404
C12_Witness ==
  \E v \in ConvIds :
    /\ conversations[v].state = "deleted"
    /\ brains[conversations[v].brain_id] = "deleted"
    /\ convReply = [op |-> "addMessage", conv |-> v, status |-> 404]

\* messages of a transcript carry strictly increasing timestamps
Increasing(messages) ==
  \A i, j \in 1..Len(messages) :
    i < j => messages[i].timestamp < messages[j].timestamp

\* transcript a is transcript b with messages appended
Extends(a, b) == Len(a) > Len(b) /\ SubSeq(a, 1, Len(b)) = b

\* C15: the messages of every conversation carry strictly increasing
\* timestamps; a step changes the transcript of a conversation that stays in
\* existence only by appending to it, or by clearMessages, which empties it
\* and leaves the conversation in existence.
C15_TranscriptAppendOnly ==
  /\ [](\A v \in ConvIds : Increasing(conversations[v].messages))
  /\ [][\A v \in ConvIds :
          /\ (Live(v) /\ conversations'[v].state = "live"
                /\ conversations'[v].messages # conversations[v].messages) =>
               \/ Extends(conversations'[v].messages, conversations[v].messages)
               \/ /\ conversations'[v].messages = <<>>
                  /\ convReply'.op = "clearMessages" /\ convReply'.conv = v
          /\ (Live(v) /\ ConvAnswered(v) /\ convReply'.op = "clearMessages") =>
               /\ conversations'[v].messages = <<>>
               /\ conversations'[v].state = "live"
               /\ conversations'[v].brain_id = conversations[v].brain_id]_vars

\* C15 witness: the transcript of the first conversation, which began with
\* one turn, has been cleared, and a query has since added its two messages
C15_Witness ==
  \E v \in {"v1"} :
    /\ Live(v) /\ clock = MaxClock
    /\ Len(conversations[v].messages) = 2
    /\ conversations[v].messages[1].timestamp = MaxClock - 1
    /\ conversations[v].messages[2].role = "assistant"
    /\ conversations[v].messages[2].content = "A2"

\* role and content of a message
Turn(message) == [role |-> message.role, content |-> message.content]

\* C16: while the engine works on a conversation query, the context it was
\* given lists every prior message, oldest first, and the transcript is these
\* messages followed by the user message of the question; the answer is
\* appended right after that user message.
C16_ContextInOrder ==
  /\ [](\A v \in ConvIds :
          conversations[v].turn.by = "query" =>
            LET m == conversations[v].messages
                context == conversations[v].turn.context
            IN  /\ Len(m) = Len(context) + 1
                /\ \A i \in 1..Len(context) : context[i] = Turn(m[i])
                /\ Turn(m[Len(m)]) =
                     [role |-> "user", content |-> conversations[v].turn.question])
  /\ [][\A v \in ConvIds :
          (ConvAnswered(v) /\ convReply'.op = "query" /\ convReply'.status = 200) =>
            LET m == conversations'[v].messages
            IN  /\ Extends(m, conversations[v].messages)
                /\ Len(m) = Len(conversations[v].messages) + 1
                /\ Turn(m[Len(m)]).role = "assistant"
                /\ Turn(m[Len(m) - 1]) =
                     [role |-> "user", content |-> conversations[v].turn.question]]_vars

\* C16 witness: the transcript [user Q1, assistant A1] was followed by the
\* query Q2, which has been answered
C16_Witness ==
  \E v \in ConvIds :
    /\ convReply = [op |-> "query", conv |-> v, status |-> 200]
    /\ [i \in 1..Len(conversations[v].messages) |->
          Turn(conversations[v].messages[i])]
         = << [role |-> "user", content |-> "Q1"],
              [role |-> "assistant", content |-> "A1"],
              [role |-> "user", content |-> "Q2"],
              [role |-> "assistant", content |-> "A2"] >>

\* the stream on connection c holds the turn of conversation v
HoldsTurn(c, v) == streams[c].conv = v /\ conversations[v].turn.by = c

\* C13: while a stream holds the turn of its conversation, the transcript
\* ends with the user message of the question; the assistant message is
\* appended only when the stream has reached done with all its content sent;
\* a stream that ended in error or was cancelled sends no further event and
\* changes the transcript no more.
C13_AnswerOnlyAfterDone ==
  /\ [](\A c \in StreamIds, v \in ConvIds :
          HoldsTurn(c, v) =>
            LET m == conversations[v].messages
            IN  /\ Len(m) = Len(conversations[v].turn.context) + 1
                /\ m[Len(m)].role = "user")
  /\ [][\A c \in StreamIds, v \in ConvIds :
          HoldsTurn(c, v) =>
            /\ conversations'[v].messages # conversations[v].messages =>
                 /\ streams[c].state = "DONE"
                 /\ Sent(c) = streams[c].chunks
                 /\ Extends(conversations'[v].messages, conversations[v].messages)
            /\ streams[c].state \in {"ERROR", "CANCELLED"} =>
                 /\ conversations'[v].messages = conversations[v].messages
                 /\ streams'[c] \in {streams[c], NoStream}]_vars

\* C13 witness: one stream of a conversation ended in error after its first
\* fragment, another was cancelled after its first fragment; the transcripts
\* of both conversations end with the user message
C13_Witness ==
  \E c, d \in StreamIds :
    /\ streams[c].state = "ERROR" /\ streams[d].state = "CANCELLED"
    /\ Sent(c) = 1 /\ Sent(d) = 1
    /\ HoldsTurn(c, streams[c].conv) /\ HoldsTurn(d, streams[d].conv)

\* the create-brain payloads the specification accepts
CreateInRange(body) ==
  /\ \E n \in body.name : n \in 1..100
  /\ body.description = Undefined \/ \E d \in body.description : d \in 0..500
  /\ body.llm_provider = Undefined
       \/ \E p \in body.llm_provider : p \in {"anthropic", "openai", "mistral"}

\* the request in slot s has left its handler
Handled(s) == req[s].pc \in {"await", "resume", "error", "answered"}

QueryInRange(body) ==
  /\ \E q \in body.question : q \in 1..2000
  /\ body.max_tokens = Undefined
       \/ \E m \in body.max_tokens : \E k \in 100..4096 : m = 10 * k
  /\ body.temperature = Undefined \/ \E x \in body.temperature : x \in 0..10

\* C22: a query is passed on exactly when its payload is in range, and what
\* is passed on is the question with an integer max_tokens of 100 to 4096
\* and a temperature of 0 to 1, the values of the request where it has them
\* and 1024 and 0.7 where it has not; the engine sees no other query.
C22_QueryInRangeWithDefaults ==
  \A s \in Slots :
    (req[s].op = "query" /\ Handled(s)) =>
      /\ req[s].calls = 1 <=> QueryInRange(req[s].body)
      /\ req[s].engine => req[s].calls = 1
      /\ req[s].calls = 1 =>
           LET q == req[s].payload
           IN  /\ q.question \in 1..2000
               /\ \E k \in 100..4096 : q.max_tokens = 10 * k
               /\ q.temperature \in 0..10
               /\ {q.question} = req[s].body.question
               /\ q.max_tokens = 10240 \/ {q.max_tokens} = req[s].body.max_tokens
               /\ q.temperature = 7 \/ {q.temperature} = req[s].body.temperature
               /\ req[s].body.max_tokens = Undefined => q.max_tokens = 10240
               /\ req[s].body.temperature = Undefined => q.temperature = 7

\* C22 witness: a query without max_tokens and temperature has been answered
\* by the engine
C22_Witness ==
  \E s \in Slots :
    /\ req[s].op = "query" /\ req[s].pc = "answered" /\ req[s].engine
    /\ req[s].body.max_tokens = Undefined
    /\ req[s].body.temperature = Undefined
    /\ req[s].payload.max_tokens = 10240 /\ req[s].payload.temperature = 7

\* the provider whose model it is
MakerOf(model) ==
  CASE model = "claude-3-5-sonnet-20241022" -> "anthropic"
    [] model = "gpt-4o" -> "openai"
    [] model = "mistral-large-latest" -> "mistral"
    [] OTHER -> "unknown"

\* a create-brain request without a model that was passed on
CreatedWithoutModel(s) ==
  /\ req[s].op = "createBrain" /\ req[s].calls = 1
  /\ req[s].body.model = Undefined

\* C23: a brain created without a model gets a default model of the
\* provider chosen for it.
C23_DefaultModelOfProvider ==
  \A s \in Slots :
    CreatedWithoutModel(s) =>
      MakerOf(req[s].payload.model) = req[s].payload.llm_provider

\* the statuses of the error taxonomy
Taxonomy == {400, 404, 500, 503}

\* C24: every error response of the gateway carries a status of the
\* taxonomy, whatever status the backend answered its call with.
C24_ErrorStatusInTaxonomy ==
  \A s \in Slots :
    (req[s].pc = "answered" /\ req[s].resp.status >= 400) =>
      req[s].resp.status \in Taxonomy

\* C25: GET /health is never handed to the error handler, and its answer is
\* the aggregate: 200 with the status the backend reported exactly when the
\* health call came back with a valid response, 503 with 'unhealthy' in
\* every other case, and the gateway's own status 'healthy' in both.
C25_HealthAlwaysAggregate ==
  \A s \in Slots :
    req[s].op = "health" =>
      /\ req[s].pc # "error" /\ req[s].error = NoError
      /\ req[s].pc = "answered" =>
           /\ req[s].resp.typescript_service = "healthy"
           /\ {"typescript_service", "python_service"} \subseteq req[s].resp.fields
           /\ IF /\ req[s].outcome.kind = "response"
                 /\ req[s].outcome.status = 200
                 /\ req[s].outcome.data \in {"healthy", "degraded", "unhealthy"}
              THEN /\ req[s].resp.status = 200
                   /\ req[s].resp.python_service = req[s].outcome.data
              ELSE /\ req[s].resp.status = 503
                   /\ req[s].resp.python_service = "unhealthy"

\* C25 witness: the health call got no response and /health answered 503
C25_Witness ==
  \E s \in Slots :
    /\ req[s].op = "health" /\ req[s].pc = "answered"
    /\ req[s].outcome.kind = "noresponse"
    /\ req[s].resp.status = 503 /\ req[s].resp.python_service = "unhealthy"

\* C26: an upload that succeeded is answered 201 with one entry per
\* uploaded file, in the order of the upload, each with the original name,
\* the size and the content type of its file; the entries are those of the
\* files that were forwarded to the backend.
C26_UploadAnswerListsFiles ==
  \A s \in Slots :
    (req[s].op = "upload" /\ req[s].pc = "answered"
       /\ Resolved(req[s].outcome)) =>
      /\ req[s].resp.status = 201
      /\ "files" \in req[s].resp.fields
      /\ Len(req[s].resp.files) = Len(req[s].files)
      /\ Len(req[s].resp.files) = req[s].forwarded
      /\ \A i \in 1..Len(req[s].files) :
           /\ req[s].resp.files[i].originalName = File[req[s].files[i]].originalname
           /\ req[s].resp.files[i].size = File[req[s].files[i]].size
           /\ req[s].resp.files[i].mimeType = File[req[s].files[i]].mimetype

\* C26 witness: an upload of two different files was answered 201
C26_Witness ==
  \E s \in Slots :
    /\ req[s].op = "upload" /\ req[s].pc = "answered"
    /\ req[s].resp.status = 201
    /\ req[s].files = <<"txt", "pdf">>
    /\ Len(req[s].resp.files) = 2

\* the payload of the client's request is invalid
PayloadInvalid(s) ==
  \/ req[s].op = "createBrain" /\ ~CreateInRange(req[s].body)
  \/ req[s].op = "query" /\ ~QueryInRange(req[s].body)

\* C27: the answer 400 'Validation error' is given only to a request whose
\* own payload is invalid; a malformed response of the backend is never
\* reported as one.
C27_ValidationErrorOnlyForClientPayload ==
  \A s \in Slots :
    (req[s].pc = "answered" /\ req[s].resp.status = 400
       /\ req[s].resp.error = "Validation error") =>
      /\ PayloadInvalid(s)
      /\ req[s].calls = 0

\* C28: the call a route makes addresses the backend operation of that
\* route, on the brain id the request gave, whatever the id contains; the
\* calls of GET and DELETE /api/brains/:id never address a document.
C28_RouteAddressesOwnOperation ==
  \A s \in Slots :
    req[s].calls > 0 =>
      /\ req[s].target.op = req[s].op
      /\ req[s].target.brain = req[s].brain
      /\ req[s].op \in {"getBrain", "deleteBrain"} =>
           /\ req[s].target.doc = NoDoc
           /\ req[s].target.op \notin {"getDocument", "deleteDocument",
                                       "listDocuments", "upload"}

\* the request in slot s is being handled: it is with multer, in its
\* handler, waiting for the backend, or on its way to the error handler
InHand(s) == req[s].pc \in {"multer", "handler", "await", "resume", "error"}

\* C29: every request gets exactly one response: none is sent while the
\* request is in hand, one has been sent when it is answered, never a
\* second, and every request in hand is answered in the end, on the success
\* and on the failure paths of every route.
C29_ExactlyOneResponse ==
  /\ [](\A s \in Slots :
          /\ req[s].sent <= 1
          /\ InHand(s) => req[s].sent = 0
          /\ req[s].pc = "answered" <=> req[s].sent = 1)
  /\ \A s \in Slots : InHand(s) ~> (req[s].pc = "answered" /\ req[s].sent = 1)

\* C29 witness: an upload whose backend call failed has been answered once,
\* by the error handler
C29_Witness ==
  \E s \in Slots :
    /\ req[s].op = "upload" /\ req[s].pc = "answered" /\ req[s].sent = 1
    /\ req[s].calls = 1 /\ ~Resolved(req[s].outcome)
    /\ req[s].error # NoError

\* C30: from the first SIGTERM or SIGINT on the server accepts no
\* connection; the process exits only after the server has closed, its last
\* connection ended, and with code 0; a second signal brings the exit no
\* earlier and leaves the code 0.
C30_ExitAfterServerClosed ==
  /\ [](/\ server.signals # <<>> => ~server.listening
        /\ server.exitCode # {} =>
             /\ server.exitCode = {0}
             /\ server.signals # <<>>
             /\ server.closed /\ ~server.listening /\ Connections = {})
  /\ [][server.signals # <<>> => Connections' \subseteq Connections]_vars

\* C30 witness: the server has created a brain, then SIGTERM and SIGINT
\* arrived, the server closed and the process has exited
C30_Witness ==
  /\ server.exitCode = {0} /\ server.closed
  /\ server.signals = <<"SIGTERM", "SIGINT">>
  /\ server.listeners = 2
  /\ brains["b1"] = "live"

====
